---- MODULE Spec2Model ----
(***************************************************************************)
(* form_designer/models.py as a state machine.                             *)
(*                                                                         *)
(* The persistent state is the rows of Form (one form, pk 1), FormField    *)
(* and FormSubmission, plus the process-wide settings read at import.      *)
(* Every admin operation and every FormContent.render call is one action.  *)
(* Text that the code takes apart (FormField.choices) is a sequence of     *)
(* one-character strings; text it only compares or pastes together is a    *)
(* TLA+ string.                                                            *)
(***************************************************************************)
EXTENDS Integers, Sequences, FiniteSets, TLC

VARIABLES
    settings,       \* django.conf.settings, fixed at import
    fields,         \* the FormField rows of the form
    nextFieldId,    \* FormField's auto-increment id
    config,         \* Form.config (parsed config_json)
    submissions,    \* the FormSubmission rows, in insertion order
    now,            \* the clock that auto_now_add reads
    instance,       \* an unsaved FormField instance open in the admin
    response        \* what the last operation returned

vars == <<settings, fields, nextFieldId, config, submissions, now, instance, response>>

-----------------------------------------------------------------------------
(* Bounds *)

MaxFieldId == 2
MaxSubmissions == 2
MaxChoicesLen == 3

-----------------------------------------------------------------------------
(* Text helpers: unicode.strip, unicode.split(','), slugify *)

Str(s) == IF s = <<>> THEN "" ELSE
    LET f[i \in 1..Len(s)] == IF i = 1 THEN s[1] ELSE f[i-1] \o s[i] IN f[Len(s)]

IsSpace(c) == c = " "

IsWord(c) == c \in {"A", "b", "C", "a", "c", "_"}

Lower(c) == CASE c = "A" -> "a" [] c = "C" -> "c" [] OTHER -> c

RECURSIVE LStrip(_)
LStrip(s) == IF s # <<>> /\ IsSpace(Head(s)) THEN LStrip(Tail(s)) ELSE s

RECURSIVE RStrip(_)
RStrip(s) == IF s # <<>> /\ IsSpace(s[Len(s)]) THEN RStrip(SubSeq(s, 1, Len(s) - 1)) ELSE s

Strip(s) == RStrip(LStrip(s))

\* s.split(','): always at least one piece; ''.split(',') is ['']
RECURSIVE SplitFrom(_, _, _)
SplitFrom(s, i, piece) ==
    IF i > Len(s) THEN <<piece>>
    ELSE IF s[i] = "," THEN <<piece>> \o SplitFrom(s, i + 1, <<>>)
    ELSE SplitFrom(s, i + 1, Append(piece, s[i]))

Split(s) == SplitFrom(s, 1, <<>>)

\* re.sub('[-\s]+', '-', value)
RECURSIVE Hyphenate(_)
Hyphenate(s) ==
    IF s = <<>> THEN <<>>
    ELSE IF Head(s) = "-" \/ IsSpace(Head(s))
         THEN IF Len(s) > 1 /\ (s[2] = "-" \/ IsSpace(s[2]))
              THEN Hyphenate(Tail(s))
              ELSE <<"-">> \o Hyphenate(Tail(s))
         ELSE <<Head(s)>> \o Hyphenate(Tail(s))

\* re.sub('[^\w\s-]', '', value).strip().lower(), then the hyphenation
slugify(value) ==
    LET kept == SelectSeq(value, LAMBDA c : IsWord(c) \/ IsSpace(c) \/ c = "-")
        stripped == Strip(kept)
        lowered == [i \in 1..Len(stripped) |-> Lower(stripped[i])]
    IN Hyphenate(lowered)

-----------------------------------------------------------------------------
(* FormField.FIELD_TYPES: tag, constructor class, curried keyword arguments *)

FIELD_TYPES == <<
    [tag |-> "text",            cls |-> "CharField",           curried |-> <<>>],
    [tag |-> "email",           cls |-> "EmailField",          curried |-> <<>>],
    [tag |-> "longtext",        cls |-> "CharField",           curried |-> [widget |-> "Textarea"]],
    [tag |-> "checkbox",        cls |-> "BooleanField",        curried |-> [required |-> FALSE]],
    [tag |-> "select",          cls |-> "ChoiceField",         curried |-> [required |-> FALSE]],
    [tag |-> "radio",           cls |-> "ChoiceField",         curried |-> [widget |-> "RadioSelect"]],
    [tag |-> "multiple-select", cls |-> "MultipleChoiceField", curried |-> <<>>] >>

TypeTags == {FIELD_TYPES[i].tag : i \in 1..Len(FIELD_TYPES)}

BLANK_CHOICE_DASH == << <<"", "---------">> >>

\* Mutant: an exact class test, which misses the subclass
IsChoiceFieldExact(f) == f.cls = "ChoiceField"

\* isinstance(x, forms.ChoiceField): MultipleChoiceField subclasses ChoiceField
IsChoiceField(f) == f.cls \in {"ChoiceField", "MultipleChoiceField"}

DefaultWidget(cls) ==
    CASE cls = "CharField" -> "TextInput"
      [] cls = "EmailField" -> "TextInput"
      [] cls = "BooleanField" -> "CheckboxInput"
      [] cls = "ChoiceField" -> "Select"
      [] cls = "MultipleChoiceField" -> "SelectMultiple"

\* What the constructors accept: only the choice fields take `choices`.
Accepts(cls) ==
    {"label", "required", "help_text", "widget"}
        \cup (IF cls \in {"ChoiceField", "MultipleChoiceField"} THEN {"choices"} ELSE {})

\* FormField.get_type: types[self.type](**kwargs); curry merges the call's
\* keyword arguments over the curried ones.
get_type(self, kwargs) ==
    IF self.type \notin TypeTags THEN [ok |-> FALSE, error |-> "KeyError"]
    ELSE LET r == CHOOSE r \in {FIELD_TYPES[i] : i \in 1..Len(FIELD_TYPES)} : r.tag = self.type
             kw == kwargs @@ r.curried
         IN IF ~(DOMAIN kw \subseteq Accepts(r.cls)) THEN [ok |-> FALSE, error |-> "TypeError"]
            ELSE [ok        |-> TRUE,
                  cls       |-> r.cls,
                  widget    |-> IF "widget" \in DOMAIN kw THEN kw.widget ELSE DefaultWidget(r.cls),
                  label     |-> IF "label" \in DOMAIN kw THEN kw.label ELSE "",
                  required  |-> IF "required" \in DOMAIN kw THEN kw.required ELSE TRUE,
                  choices   |-> IF "choices" \in DOMAIN kw THEN kw.choices ELSE <<>>,
                  help_text |-> IF "help_text" \in DOMAIN kw THEN kw.help_text ELSE ""]

\* FormField.clean: "ok", or the exception raised
clean(self) ==
    LET t == get_type(self, <<>>) IN
    IF ~t.ok THEN t.error
    ELSE IF self.choices # <<>> /\ ~IsChoiceField(t) THEN "ValidationError"
    ELSE "ok"

\* Mutant: the blank option for every optional field, whatever its type
get_choices_blank_for_optional(self) ==
    LET get_tuple(value) == <<Str(slugify(Strip(value))), Str(Strip(value))>>
        pieces == Split(self.choices)
        choices == [i \in 1..Len(pieces) |-> get_tuple(pieces[i])]
    IN IF ~self.is_required THEN BLANK_CHOICE_DASH \o choices ELSE choices

\* FormField.get_choices
get_choices(self) ==
    LET get_tuple(value) == <<Str(slugify(Strip(value))), Str(Strip(value))>>
        pieces == Split(self.choices)
        choices == [i \in 1..Len(pieces) |-> get_tuple(pieces[i])]
    IN IF ~self.is_required /\ self.type = "select"
       THEN BLANK_CHOICE_DASH \o choices
       ELSE choices

\* FormField.formfield
formfield(self) ==
    LET kwargs == [label |-> self.title, required |-> self.is_required]
        k2 == IF self.choices # <<>> THEN [choices |-> get_choices(self)] @@ kwargs ELSE kwargs
        k3 == IF self.help_text # "" THEN [help_text |-> self.help_text] @@ k2 ELSE k2
    IN get_type(self, k3)

-----------------------------------------------------------------------------
(* Module level: FORM_CLASSES, FORM_TAKES_REQUEST, HIDDEN_FIELDS *)

\* The classes a settings entry can name: is_form says whether the class
\* inherits from forms.Form, takes_request whether its __init__ takes the
\* request as its first positional argument.
ClassTable == [
    Form        |-> [is_form |-> TRUE,  takes_request |-> FALSE],
    SiteForm    |-> [is_form |-> TRUE,  takes_request |-> FALSE],
    RequestForm |-> [is_form |-> TRUE,  takes_request |-> TRUE],
    Mixin       |-> [is_form |-> FALSE, takes_request |-> FALSE] ]

\* isinstance(obj, forms.Form) for obj a class object: a class is an instance
\* of its metaclass, never of forms.Form, whatever it inherits from.
IsInstanceOfForm(cls) == FALSE

\* Lines 20-41.  An entry is a class object (kind "type"), an import path
\* (kind "basestring") or anything else.
RECURSIVE ParseFrom(_, _, _, _)
ParseFrom(entries, i, classes, form_subclassed) ==
    IF i > Len(entries)
    THEN [ok |-> TRUE,
          classes |-> IF ~form_subclassed THEN Append(classes, "Form") ELSE classes]
    ELSE IF entries[i].kind \in {"type", "basestring"}
         THEN ParseFrom(entries, i + 1, Append(classes, entries[i].name),
                        form_subclassed \/ IsInstanceOfForm(entries[i].name))
         ELSE [ok |-> FALSE, classes |-> <<>>]

FORM_CLASSES ==
    IF settings.has_classes
    THEN ParseFrom(settings.FORM_DESIGNER_CLASSES, 1, <<>>, FALSE)
    ELSE [ok |-> TRUE, classes |-> <<"Form">>]

FORM_TAKES_REQUEST == settings.FORM_DESIGNER_PASS_REQUEST

HIDDEN_FIELDS == settings.FORM_DESIGNER_HIDDEN_FIELDS

\* The import of models.py succeeded
Started == FORM_CLASSES.ok

-----------------------------------------------------------------------------
(* Form *)

FormPk == 1

FormTitle == "Contact"

\* Mutant: insertion order, the default without Meta.ordering
BeforeById(a, b) == a.id < b.id

\* Meta.ordering = ['ordering', 'id']
Before(a, b) == a.ordering < b.ordering \/ (a.ordering = b.ordering /\ a.id < b.id)

\* self.fields.all(): the form's rows in Meta.ordering
RECURSIVE FieldsAll(_)
FieldsAll(rows) ==
    IF rows = {} THEN <<>>
    ELSE LET first == CHOOSE r \in rows : \A q \in rows \ {r} : Before(r, q)
         IN <<first>> \o FieldsAll(rows \ {first})

\* SortedDict.__setitem__: a new key goes to the end, an old key keeps its
\* place and takes the new value.  A SortedDict is a sequence of <<key, value>>.
SortedDictSet(d, key, value) ==
    IF \E i \in 1..Len(d) : d[i][1] = key
    THEN [i \in 1..Len(d) |-> IF d[i][1] = key THEN <<key, value>> ELSE d[i]]
    ELSE Append(d, <<key, value>>)

\* FormField.add_formfield
add_formfield(self, fieldsDict) == SortedDictSet(fieldsDict, self.name, formfield(self))

\* Form.form
RECURSIVE FormFieldsFrom(_, _, _)
FormFieldsFrom(all, i, fieldsDict) ==
    IF i > Len(all) THEN fieldsDict
    ELSE FormFieldsFrom(all, i + 1, add_formfield(all[i], fieldsDict))

form(rows) ==
    [name   |-> "Form" \o ToString(FormPk),
     bases  |-> FORM_CLASSES.classes,
     fields |-> FormFieldsFrom(FieldsAll(rows), 1, <<>>)]

-----------------------------------------------------------------------------
(* Python values held in cleaned_data and in FormSubmission.data *)

U(str) == [type |-> "unicode", s |-> str, items |-> <<>>]

Bool(b) == [type |-> "bool", s |-> IF b THEN "True" ELSE "False", items |-> <<>>]

None == [type |-> "NoneType", s |-> "None", items |-> <<>>]

List(strs) == [type |-> "list", s |-> "", items |-> strs]

DateTime(t) == [type |-> "datetime", s |-> "T" \o ToString(t), items |-> <<>>]

\* datetime.date() and datetime.time()
DateOf(dt) == [type |-> "date", s |-> dt.s \o ".date", items |-> <<>>]

TimeOf(dt) == [type |-> "time", s |-> dt.s \o ".time", items |-> <<>>]

\* bool(v)
Truthy(v) ==
    CASE v.type = "unicode" -> v.s # ""
      [] v.type = "bool" -> v.s = "True"
      [] v.type = "NoneType" -> FALSE
      [] v.type = "list" -> v.items # <<>>
      [] OTHER -> TRUE

\* a or b
PyOr(a, b) == IF Truthy(a) THEN a ELSE b

\* repr(v)
Repr(v) ==
    CASE v.type = "unicode" -> "u'" \o v.s \o "'"
      [] v.type = "list" ->
            LET f[i \in 0..Len(v.items)] ==
                    IF i = 0 THEN "["
                    ELSE f[i-1] \o (IF i > 1 THEN ", " ELSE "") \o "u'" \o v.items[i] \o "'"
            IN f[Len(v.items)] \o "]"
      [] OTHER -> v.s

\* "%s" % v
Format(v) == IF v.type = "unicode" THEN v.s ELSE Repr(v)

\* The raw strings a payload carries, and the values cleaning makes of them
RawValues == {"", "a", "a@b.com"}

PyValues ==
    {U(r) : r \in RawValues} \cup {Bool(TRUE), Bool(FALSE), None, List(<<>>)}
        \cup {List(<<r>>) : r \in RawValues}

\* repr(form.cleaned_data): the dict display, key literal -> value literal
ReprDict(d) == [k \in {Repr(U(n)) : n \in DOMAIN d} |->
                  Repr(d[CHOOSE n \in DOMAIN d : Repr(U(n)) = k])]

\* eval(self.data): the dict the display denotes
EvalDict(text, names) ==
    LET keys == {n \in names : Repr(U(n)) \in DOMAIN text}
    IN [n \in keys |-> CHOOSE v \in PyValues : Repr(v) = text[Repr(U(n))]]

-----------------------------------------------------------------------------
(* The runtime form: django.forms binding and validation of the field       *)
(* classes FIELD_TYPES names                                                *)

\* BaseForm.add_prefix
add_prefix(prefix, name) == prefix \o "-" \o name

IsEmail(str) == str \in {"a@b.com"}

ChoiceValues(f) == {f.choices[i][1] : i \in 1..Len(f.choices)}

\* Field.clean on the widget's value for `key`: [ok, value]
clean_field(f, data, key) ==
    LET present == key \in DOMAIN data
        raw == IF present THEN data[key] ELSE ""
    IN CASE f.cls = "CharField" ->
              [ok |-> ~(f.required /\ raw = ""), value |-> U(raw)]
         [] f.cls = "EmailField" ->
              [ok |-> ~(f.required /\ raw = "") /\ (raw = "" \/ IsEmail(raw)), value |-> U(raw)]
         [] f.cls = "BooleanField" ->
              LET b == present /\ raw \notin {"", "False", "false", "0"}
              IN [ok |-> ~(f.required /\ ~b), value |-> Bool(b)]
         [] f.cls = "ChoiceField" ->
              [ok |-> ~(f.required /\ raw = "") /\ (raw = "" \/ raw \in ChoiceValues(f)),
               value |-> U(raw)]
         [] f.cls = "MultipleChoiceField" ->
              LET lst == IF present THEN <<raw>> ELSE <<>>
              IN [ok |-> ~(f.required /\ lst = <<>>)
                          /\ \A i \in 1..Len(lst) : lst[i] \in ChoiceValues(f),
                  value |-> List(lst)]

\* form_class(data, prefix=prefix) and, for bound forms, full_clean()
FormInstance(form_class, request, data, bound, prefix) ==
    LET n == Len(form_class.fields)
        name(i) == form_class.fields[i][1]
        res(i) == clean_field(form_class.fields[i][2], data, add_prefix(prefix, name(i)))
        good == {i \in 1..n : res(i).ok}
    IN [is_bound     |-> bound,
        prefix       |-> prefix,
        request      |-> request,
        errors       |-> IF bound THEN {name(i) : i \in (1..n) \ good} ELSE {},
        cleaned_data |-> IF bound
                         THEN [k \in {name(i) : i \in good} |->
                                 res(CHOOSE i \in good : name(i) = k).value]
                         ELSE <<>>]

\* Mutant: any bound form passes
is_valid_when_bound(form_instance) == form_instance.is_bound

\* BaseForm.is_valid
is_valid(form_instance) == form_instance.is_bound /\ form_instance.errors = {}

-----------------------------------------------------------------------------
(* FormSubmission *)

FieldNames == {"email", "name"}

FieldTitles == {"E-mail", "name"}

\* The orders in which a dict with these keys can be iterated
DictOrders(d) ==
    {o \in [1..Cardinality(DOMAIN d) -> DOMAIN d] : \A i, j \in DOMAIN o : i # j => o[i] # o[j]}

RECURSIVE TitledFrom(_, _, _, _)
TitledFrom(all, i, data_dict, data) ==
    IF i > Len(all) THEN data
    ELSE TitledFrom(all, i + 1, data_dict,
            SortedDictSet(data, all[i].title,
                IF all[i].name \in DOMAIN data_dict THEN data_dict[all[i].name] ELSE None))

RECURSIVE ExtrasFrom(_, _, _, _, _)
ExtrasFrom(order, i, field_names, data_dict, data) ==
    IF i > Len(order) THEN data
    ELSE ExtrasFrom(order, i + 1, field_names, data_dict,
            IF order[i] \notin field_names
            THEN SortedDictSet(data, order[i], data_dict[order[i]])
            ELSE data)

\* FormSubmission.sorted_data; `rows` is self.form.fields, `order` the
\* iteration order of the dict eval() built
sorted_data(self, rows, order, include) ==
    LET data_dict == EvalDict(self.data, FieldNames)
        all == FieldsAll(rows)
        field_names == {all[i].name : i \in 1..Len(all)}
        d1 == TitledFrom(all, 1, data_dict, <<>>)
        d2 == ExtrasFrom(order, 1, field_names, data_dict, d1)
        d3 == IF "datetime" \in include
              THEN SortedDictSet(d2, "submitted", DateTime(self.submitted)) ELSE d2
        d4 == IF "date" \in include
              THEN SortedDictSet(d3, "date submitted", DateOf(DateTime(self.submitted))) ELSE d3
        d5 == IF "time" \in include
              THEN SortedDictSet(d4, "time submitted", TimeOf(DateTime(self.submitted))) ELSE d4
    IN IF "path" \in include THEN SortedDictSet(d5, "form path", U(self.path)) ELSE d5

InList(x, lst) == \E i \in 1..Len(lst) : lst[i] = x

\* Mutant: the hidden-fields test left out of the markup branch
RECURSIVE FormattedFromHtmlUnfiltered(_, _, _, _)
FormattedFromHtmlUnfiltered(items, i, html, formatted) ==
    IF i > Len(items) THEN formatted
    ELSE FormattedFromHtmlUnfiltered(items, i + 1, html,
            IF html
            THEN formatted \o "<dt>" \o items[i][1] \o "</dt><dd>"
                           \o Format(items[i][2]) \o "</dd>\n"
            ELSE IF ~InList(items[i][1], HIDDEN_FIELDS)
            THEN formatted \o items[i][1] \o ": " \o Format(items[i][2]) \o "\n"
            ELSE formatted)

RECURSIVE FormattedFrom(_, _, _, _)
FormattedFrom(items, i, html, formatted) ==
    IF i > Len(items) THEN formatted
    ELSE FormattedFrom(items, i + 1, html,
            IF ~InList(items[i][1], HIDDEN_FIELDS)
            THEN IF html
                 THEN formatted \o "<dt>" \o items[i][1] \o "</dt><dd>"
                                \o Format(items[i][2]) \o "</dd>\n"
                 ELSE formatted \o items[i][1] \o ": " \o Format(items[i][2]) \o "\n"
            ELSE formatted)

\* FormSubmission.formatted_data
formatted_data(self, rows, order, html) ==
    LET formatted == FormattedFrom(sorted_data(self, rows, order, {}), 1, html, "")
    IN IF ~html THEN formatted ELSE "<dl>" \o formatted \o "</dl>"

\* FormSubmission.formatted_data_html
formatted_data_html(self, rows, order) == formatted_data(self, rows, order, TRUE)

\* FormSubmission.objects.create(form=, data=, path=): the row, with its
\* auto-increment id and auto_now_add timestamp
CreateSubmission(form_pk, data, path) ==
    [id |-> Len(submissions) + 1, form |-> form_pk, data |-> data, path |-> path,
     submitted |-> now]

-----------------------------------------------------------------------------
(* Form.process *)

DEFAULT_FROM_EMAIL == "webmaster@localhost"

ThankYou == "Thank you, your input has been received."

\* Mutant: a failed delivery is tried once more
process_with_retry(form_instance, request, rows, cfg, delivered, order) ==
    LET submission == CreateSubmission(FormPk, ReprDict(form_instance.cleaned_data), request.path)
        mail == [subject |-> FormTitle,
                 body |-> formatted_data(submission, rows, order, FALSE),
                 from_email |-> DEFAULT_FROM_EMAIL,
                 recipients |-> <<cfg.email.email>>,
                 fail_silently |-> TRUE,
                 delivered |-> delivered]
    IN IF "email" \in DOMAIN cfg
       THEN [submission |-> submission,
             mails |-> IF delivered THEN <<mail>> ELSE <<mail, mail>>,
             result |-> U(ThankYou)]
       ELSE [submission |-> submission, mails |-> <<>>, result |-> None]

\* What process does, given how the mail transport answers (`delivered`) and
\* the dict order formatted_data meets: the row created, the messages handed
\* to send_mail, the value returned.
process_with(form_instance, request, rows, cfg, delivered, order) ==
    LET submission == CreateSubmission(FormPk, ReprDict(form_instance.cleaned_data), request.path)
    IN IF "email" \in DOMAIN cfg
       THEN [submission |-> submission,
             mails |-> << [subject |-> FormTitle,
                           body |-> formatted_data(submission, rows, order, FALSE),
                           from_email |-> DEFAULT_FROM_EMAIL,
                           recipients |-> <<cfg.email.email>>,
                           fail_silently |-> TRUE,
                           delivered |-> delivered] >>,
             result |-> U(ThankYou)]
       ELSE [submission |-> submission, mails |-> <<>>, result |-> None]

\* Every way a call of process can go
process(form_instance, request, rows, cfg) ==
    IF "email" \in DOMAIN cfg
    THEN {process_with(form_instance, request, rows, cfg, delivered, order) :
            delivered \in BOOLEAN, order \in DictOrders(form_instance.cleaned_data)}
    ELSE {process_with(form_instance, request, rows, cfg, FALSE, <<>>)}

-----------------------------------------------------------------------------
(* FormContent *)

\* The content rows embedding the form: one without and one with a custom
\* success message
Contents == {
    [id |-> 1, form |-> FormPk, show_form_title |-> TRUE, success_message |-> ""],
    [id |-> 2, form |-> FormPk, show_form_title |-> TRUE, success_message |-> "Thanks!"] }

NoForm == [is_bound |-> FALSE, prefix |-> "", request |-> "none", errors |-> {},
           cleaned_data |-> <<>>]

\* How form_class(...) in render binds its positional arguments: the lambda
\* of pass-request mode puts the request first; a base class whose __init__
\* takes the request consumes the first argument; what is left first is `data`.
BindArgs(bases, is_post) ==
    LET args == (IF FORM_TAKES_REQUEST THEN <<"request">> ELSE <<>>)
                    \o (IF is_post THEN <<"POST">> ELSE <<>>)
        consumer == \E i \in 1..Len(bases) : ClassTable[bases[i]].takes_request
        rest == IF consumer /\ args # <<>> THEN Tail(args) ELSE args
        data == IF rest = <<>> THEN "None" ELSE rest[1]
    IN [error   |-> IF \E i, j \in 1..Len(bases) : i # j /\ bases[i] = bases[j]
                        THEN "TypeError"       \* type(): duplicate base class
                    ELSE IF consumer /\ args = <<>> THEN "TypeError"
                    ELSE IF data = "request" THEN "AttributeError"
                    ELSE "",
        request |-> IF consumer /\ args # <<>> THEN args[1] ELSE "none",
        bound   |-> data # "None"]

\* Mutant: the process result ahead of the custom message
SuccessMessageResultFirst(self, process_result) ==
    PyOr(process_result, PyOr(U(self.success_message), U("")))

\* FormContent.process_valid_form: the context's message
SuccessMessage(self, process_result) ==
    PyOr(U(self.success_message), PyOr(process_result, U("")))

\* FormContent.render, with process_valid_form inlined
Render(self, request) ==
    LET form_class == form(fields)
        prefix == "fc" \o ToString(self.id)
        is_post == request.method = "POST"
        bind == BindArgs(form_class.bases, is_post)
        form_instance == FormInstance(form_class, bind.request, request.POST, bind.bound, prefix)
        base == [op |-> "render", content |-> self.id, request |-> request,
                 form_class |-> form_class, view |-> "error", form |-> NoForm,
                 message |-> None, created |-> <<>>, mails |-> <<>>, error |-> bind.error]
    IN /\ Started
       /\ IF bind.error # ""
          THEN /\ response' = base
               /\ UNCHANGED <<submissions, now>>
          ELSE IF is_post /\ is_valid(form_instance)
          THEN \E done \in process(form_instance, request, fields, config) :
                  /\ Len(submissions) < MaxSubmissions
                  /\ submissions' = Append(submissions, done.submission)
                  /\ now' = now + 1
                  /\ response' = [base EXCEPT !.view = "success", !.form = form_instance,
                                      !.message = SuccessMessage(self, done.result),
                                      !.created = <<done.submission.id>>,
                                      !.mails = done.mails]
          ELSE /\ response' = [base EXCEPT !.view = "display", !.form = form_instance]
               /\ UNCHANGED <<submissions, now>>
       /\ UNCHANGED <<settings, fields, nextFieldId, config, instance>>

-----------------------------------------------------------------------------
(* The admin: FormField rows are validated (clean, unique_together) and     *)
(* saved; Form.config is edited                                             *)

NoInstance == [id |-> -1]

Row(id, input) ==
    [id |-> id, form |-> FormPk, ordering |-> input.ordering, title |-> input.title,
     name |-> input.name, type |-> input.type, choices |-> input.choices,
     help_text |-> input.help_text, is_required |-> input.is_required]

\* Model validation of a row about to be saved: clean(), then
\* unique_together = (('form', 'name'),)
Validate(row) ==
    IF clean(row) # "ok" THEN clean(row)
    ELSE IF \E r \in fields : r.id # row.id /\ r.form = row.form /\ r.name = row.name
         THEN "ValidationError"
         ELSE "ok"

AddField(input) ==
    LET row == Row(nextFieldId, input) IN
    /\ Started
    /\ nextFieldId <= MaxFieldId
    /\ IF Validate(row) = "ok"
       THEN /\ fields' = fields \cup {row}
            /\ nextFieldId' = nextFieldId + 1
       ELSE UNCHANGED <<fields, nextFieldId>>
    /\ response' = [op |-> "admin", result |-> Validate(row)]
    /\ UNCHANGED <<settings, config, submissions, now, instance>>

SaveField(old, input) ==
    LET row == Row(old.id, input) IN
    /\ Started
    /\ old \in fields
    /\ row # old
    /\ IF Validate(row) = "ok"
       THEN fields' = (fields \ {old}) \cup {row}
       ELSE UNCHANGED fields
    /\ response' = [op |-> "admin", result |-> Validate(row)]
    /\ UNCHANGED <<settings, nextFieldId, config, submissions, now, instance>>

\* Mutant: the delete cascades into the stored submissions
DeleteFieldCascade(old) ==
    /\ Started
    /\ old \in fields
    /\ fields' = fields \ {old}
    /\ submissions' = [i \in 1..Len(submissions) |->
            [submissions[i] EXCEPT !.data =
                [k \in DOMAIN submissions[i].data \ {Repr(U(old.name))} |-> submissions[i].data[k]]]]
    /\ response' = [op |-> "admin", result |-> "ok"]
    /\ UNCHANGED <<settings, nextFieldId, config, now, instance>>

DeleteField(old) ==
    /\ Started
    /\ old \in fields
    /\ fields' = fields \ {old}
    /\ response' = [op |-> "admin", result |-> "ok"]
    /\ UNCHANGED <<settings, nextFieldId, config, submissions, now, instance>>

EmailConfig == [email |-> [email |-> "admin@example.com"]]

Configs == {<<>>, EmailConfig}

SaveConfig(cfg) ==
    /\ Started
    /\ cfg # config
    /\ config' = cfg
    /\ response' = [op |-> "admin", result |-> "ok"]
    /\ UNCHANGED <<settings, fields, nextFieldId, submissions, now, instance>>

-----------------------------------------------------------------------------
(* Reading a submission: the admin list and the export *)

SortedData(self, include) ==
    /\ Started
    /\ \E order \in DictOrders(EvalDict(self.data, FieldNames)) :
       response' = [op |-> "sorted_data", submission |-> self.id, include |-> include,
                    data |-> sorted_data(self, fields, order, include)]
    /\ UNCHANGED <<settings, fields, nextFieldId, config, submissions, now, instance>>

FormattedData(self, html) ==
    /\ Started
    /\ \E order \in DictOrders(EvalDict(self.data, FieldNames)) :
       response' = [op |-> "formatted_data", submission |-> self.id, html |-> html,
                    data |-> sorted_data(self, fields, order, {}),
                    text |-> IF html THEN formatted_data_html(self, fields, order)
                             ELSE formatted_data(self, fields, order, FALSE)]
    /\ UNCHANGED <<settings, fields, nextFieldId, config, submissions, now, instance>>

-----------------------------------------------------------------------------
(* An unsaved FormField instance: its methods called one at a time *)

CleanInstance ==
    /\ instance # NoInstance
    /\ response' = [op |-> "clean", result |-> clean(instance)]
    /\ UNCHANGED <<settings, fields, nextFieldId, config, submissions, now, instance>>

GetChoicesInstance ==
    /\ instance # NoInstance
    /\ response' = [op |-> "get_choices", result |-> get_choices(instance)]
    /\ UNCHANGED <<settings, fields, nextFieldId, config, submissions, now, instance>>

FormfieldInstance ==
    /\ instance # NoInstance
    /\ response' = [op |-> "formfield", result |-> formfield(instance)]
    /\ UNCHANGED <<settings, fields, nextFieldId, config, submissions, now, instance>>

-----------------------------------------------------------------------------------------------------------------------------------------------------
(* Inputs *)

Chars(str) ==
    CASE str = "" -> <<>>
      [] str = "A, b" -> <<"A", ",", " ", "b">>
      [] str = "A, b ,C" -> <<"A", ",", " ", "b", " ", ",", "C">>

Input(name, title, ordering, kind) ==
    [name |-> name, title |-> title, ordering |-> ordering, type |-> kind.type,
     choices |-> kind.choices, help_text |-> kind.help_text, is_required |-> kind.is_required]

\* What the admin of the site enters for type, choices, is_required and
\* help_text: a required text field, and the same with choices
Kinds == {
    [type |-> "text", choices |-> Chars(""),     is_required |-> TRUE, help_text |-> ""],
    [type |-> "text", choices |-> Chars("A, b"), is_required |-> TRUE, help_text |-> ""] }

Orderings == {1, 2}

FieldInputs ==
    {Input(n, t, o, k) : n \in FieldNames, t \in FieldTitles, o \in Orderings, k \in Kinds}

\* An admin change form saved with one attribute edited
Attributes == {"ordering", "title", "name", "type", "choices", "help_text", "is_required"}

Edits(old) ==
    {input \in FieldInputs : Cardinality({a \in Attributes : input[a] # old[a]}) = 1}

Paths == {"/contact/"}

\* The requests that reach a content: GET, or POST with any of the keys
\* `names` under the content's prefix
Requests(self, names, values) ==
    LET keys == {add_prefix("fc" \o ToString(self.id), n) : n \in names}
    IN {[method |-> "GET", path |-> p, POST |-> <<>>] : p \in Paths}
        \cup {[method |-> "POST", path |-> p, POST |-> d] :
                p \in Paths, d \in UNION {[ks -> values] : ks \in SUBSET keys}}

Includes == {{}, {"datetime", "date", "time", "path"}}

\* Settings under which the deployment runs: the defaults, or pass-request
\* mode with a form base that takes the request
DefaultSettings ==
    [has_classes |-> FALSE, FORM_DESIGNER_CLASSES |-> <<>>,
     FORM_DESIGNER_PASS_REQUEST |-> FALSE, FORM_DESIGNER_HIDDEN_FIELDS |-> <<"E-mail">>]

PassRequestSettings ==
    [has_classes |-> TRUE,
     FORM_DESIGNER_CLASSES |-> <<[kind |-> "basestring", name |-> "RequestForm"]>>,
     FORM_DESIGNER_PASS_REQUEST |-> TRUE, FORM_DESIGNER_HIDDEN_FIELDS |-> <<"E-mail">>]

-----------------------------------------------------------------------------
(* The site: admin edits of the form's fields, requests and reports in any  *)
(* order, on a form that notifies by e-mail                                 *)

Init ==
    /\ settings = DefaultSettings
    /\ fields = {}
    /\ nextFieldId = 1
    /\ config = EmailConfig
    /\ submissions = <<>>
    /\ now = 1
    /\ instance = NoInstance
    /\ response = [op |-> "none"]

Next ==
    \/ \E input \in FieldInputs : AddField(input)
    \/ \E old \in fields : \E input \in Edits(old) : SaveField(old, input)
    \/ \E old \in fields : DeleteField(old)
    \/ \E self \in {c \in Contents : c.id = 1} : \E request \in Requests(self, FieldNames, {"a"}) :
            Render(self, request)
    \/ \E i \in 1..Len(submissions), include \in Includes : SortedData(submissions[i], include)
    \/ \E i \in 1..Len(submissions), html \in BOOLEAN : FormattedData(submissions[i], html)

Spec == Init /\ [][Next]_vars

-----------------------------------------------------------------------------
(* Requests against a form of one field of any type, through either        *)
(* content, with and without e-mail configured, in either settings mode     *)

OneFieldKinds ==
    {[type |-> t, choices |-> c, is_required |-> r, help_text |-> ""] :
        t \in TypeTags, c \in {Chars(""), Chars("A, b")}, r \in BOOLEAN}

\* The rows that pass the admin's validation
OneFieldRows ==
    {row \in {Row(1, Input("name", "name", 1, k)) : k \in OneFieldKinds} : clean(row) = "ok"}

InitRender ==
    /\ settings \in {DefaultSettings, PassRequestSettings}
    /\ fields \in {{row} : row \in OneFieldRows}
    /\ nextFieldId = 2
    /\ config \in Configs
    /\ submissions = <<>>
    /\ now = 1
    /\ instance = NoInstance
    /\ response = [op |-> "none"]

NextRender ==
    \/ \E cfg \in Configs : SaveConfig(cfg)
    \/ \E self \in Contents : \E request \in Requests(self, {"name"}, RawValues) :
            Render(self, request)

SpecRender == InitRender /\ [][NextRender]_vars

-----------------------------------------------------------------------------
(* A FormField instance of any type and any short choices text: clean,     *)
(* get_choices and formfield called on it                                   *)

ChoiceAlphabet == {"A", "b", " ", ",", "!"}

ChoiceTexts ==
    UNION {[1..n -> ChoiceAlphabet] : n \in 0..MaxChoicesLen} \cup {Chars("A, b ,C")}

InitField ==
    /\ settings = DefaultSettings
    /\ fields = {}
    /\ nextFieldId = 1
    /\ config = <<>>
    /\ submissions = <<>>
    /\ now = 1
    /\ instance \in {Row(0, Input("name", "name", 0, k)) :
            k \in [type : TypeTags, choices : ChoiceTexts, is_required : BOOLEAN,
                   help_text : {"", "hint"}]}
    /\ response = [op |-> "none"]

NextField ==
    \/ CleanInstance
    \/ GetChoicesInstance
    \/ FormfieldInstance

SpecField == InitField /\ [][NextField]_vars

-----------------------------------------------------------------------------
(* Any FORM_DESIGNER_CLASSES setting: the import, then forms built and      *)
(* shown                                                                    *)

MaxClasses == 2

ClassEntries ==
    [kind : {"type", "basestring"}, name : {"Form", "SiteForm", "Mixin"}]
        \cup {[kind |-> "other", name |-> "42"]}

ClassesSettings ==
    {DefaultSettings} \cup
    {[DefaultSettings EXCEPT !.has_classes = TRUE, !.FORM_DESIGNER_CLASSES = cs] :
        cs \in UNION {[1..n -> ClassEntries] : n \in 0..MaxClasses}}

InitClasses ==
    /\ settings \in ClassesSettings
    /\ fields = {}
    /\ nextFieldId = 1
    /\ config = <<>>
    /\ submissions = <<>>
    /\ now = 1
    /\ instance = NoInstance
    /\ response = [op |-> "none"]

NextClasses ==
    \/ \E input \in {Input("name", "name", 1, k) : k \in Kinds} : AddField(input)
    \/ \E old \in fields : DeleteField(old)
    \/ \E self \in Contents : \E request \in Requests(self, {}, {}) : Render(self, request)

SpecClasses == InitClasses /\ [][NextClasses]_vars

-----------------------------------------------------------------------------
(* Properties *)

ContentOf(id) == CHOOSE c \in Contents : c.id = id

\* The bound runtime form of the current rows validates the request's payload
Validates(request, content_id) ==
    \A row \in fields :
        clean_field(formfield(row), request.POST,
                    add_prefix("fc" \o ToString(content_id), row.name)).ok

\* C1: a render call runs Form.process, and so creates a Submission, exactly
\* when the request is a POST whose bound form validates.  A GET gives the
\* display view with an unbound form, an invalid POST the display view with
\* the bound form and its errors; neither creates a Submission nor attempts
\* a notification.
C1_ProcessIffValidPost ==
    [][response'.op = "render" =>
        LET r == response'
            submitting == r.request.method = "POST"
            valid == Validates(r.request, r.content)
        IN /\ r.error = ""
           /\ (submissions' # submissions) <=> (submitting /\ valid)
           /\ (r.view = "success") <=> (submitting /\ valid)
           /\ (r.created # <<>>) <=> (submitting /\ valid)
           /\ ~submitting =>
                /\ r.view = "display" /\ ~r.form.is_bound /\ r.form.errors = {}
                /\ submissions' = submissions /\ r.mails = <<>>
           /\ (submitting /\ ~valid) =>
                /\ r.view = "display" /\ r.form.is_bound /\ r.form.errors # {}
                /\ submissions' = submissions /\ r.mails = <<>>
    ]_vars

\* An invalid POST shown again with its errors, after an earlier valid one
C1_Witness ==
    /\ response.op = "render"
    /\ response.request.method = "POST"
    /\ response.view = "display"
    /\ response.form.is_bound
    /\ response.form.errors = {"name"}
    /\ Len(submissions) = 1

\* C2: a valid submission to a form whose config has `email` creates exactly
\* one Submission row and hands exactly one message to the mail transport,
\* whether or not that delivery succeeds; the row stays, nothing is retried
\* and the request ends in the success view.
C2_OneRowOneNotification ==
    [][(/\ response'.op = "render"
        /\ response'.request.method = "POST"
        /\ Validates(response'.request, response'.content)
        /\ "email" \in DOMAIN config) =>
        LET r == response'
            n == Len(submissions)
        IN /\ Len(submissions') = n + 1
           /\ SubSeq(submissions', 1, n) = submissions
           /\ submissions'[n + 1].form = FormPk
           /\ submissions'[n + 1].data = ReprDict(r.form.cleaned_data)
           /\ submissions'[n + 1].path = r.request.path
           /\ r.created = <<submissions'[n + 1].id>>
           /\ Len(r.mails) = 1
           /\ r.mails[1].recipients = <<config.email.email>>
           /\ r.mails[1].subject = FormTitle
           /\ r.view = "success"
    ]_vars

\* The delivery failed; the row is there and the view is the success view
C2_Witness ==
    /\ response.op = "render"
    /\ response.view = "success"
    /\ Len(response.mails) = 1
    /\ ~response.mails[1].delivered
    /\ Len(submissions) = 2
    /\ response.created = <<2>>

\* C3: a Submission is created once, by a validated submission, and never
\* changed: every step of every operation leaves every existing row as it
\* was, and a row appears only in a render step that ends in the success view.
C3_SubmissionsImmutable ==
    [][/\ Len(submissions') >= Len(submissions)
       /\ \A i \in 1..Len(submissions) : submissions'[i] = submissions[i]
       /\ Len(submissions') # Len(submissions) =>
            /\ Len(submissions') = Len(submissions) + 1
            /\ response'.op = "render"
            /\ response'.view = "success"
    ]_vars

\* A submission whose form has since lost the field it was made with, and a
\* later submission beside it
C3_Witness ==
    /\ Len(submissions) = 2
    /\ response.op = "admin"
    /\ response.result = "ok"
    /\ DOMAIN EvalDict(submissions[1].data, FieldNames) = {"email", "name"}
    /\ {row.name : row \in fields} = {"name"}

\* C4: the success view's message is the content's custom success message
\* when that is not empty, else what Form.process returned, which is the
\* default acknowledgement when config has `email`, else the empty string.
C4_SuccessMessage ==
    (response.op = "render" /\ response.view = "success") =>
        response.message =
            IF ContentOf(response.content).success_message # ""
            THEN U(ContentOf(response.content).success_message)
            ELSE IF "email" \in DOMAIN config THEN U(ThankYou)
            ELSE U("")

\* The custom message shown although process returned the acknowledgement
C4_Witness ==
    /\ response.op = "render"
    /\ response.view = "success"
    /\ response.content = 2
    /\ "email" \in DOMAIN config
    /\ response.message = U("Thanks!")

\* The submission a report is about
ReportedSubmission == submissions[response.submission]

\* The current row in place i of (ordering, id) order
RowAt(i) ==
    CHOOSE row \in fields :
        Cardinality({q \in fields : q.ordering < row.ordering
                        \/ (q.ordering = row.ordering /\ q.id < row.id)}) = i - 1

\* C5: sorted_data() lists one entry per current field first, keyed by the
\* field's title and in (ordering, id) order, and after them every stored
\* pair whose key names no current field, keyed by the stored name and
\* carrying the stored value.
C5_SortedDataFieldsThenExtras ==
    (response.op = "sorted_data" /\ response.include = {}) =>
        LET d == response.data
            n == Cardinality(fields)
            stored == EvalDict(ReportedSubmission.data, FieldNames)
            extras == DOMAIN stored \ {row.name : row \in fields}
        IN /\ Len(d) = n + Cardinality(extras)
           /\ \A i \in 1..n :
                /\ d[i][1] = RowAt(i).title
                /\ d[i][2] = IF RowAt(i).name \in DOMAIN stored
                             THEN stored[RowAt(i).name] ELSE None
           /\ \A k \in extras :
                \E i \in (n + 1)..Len(d) : d[i] = <<k, stored[k]>>

\* The keys sorted_data writes are all different: no two current fields share
\* a title and no stored extra key is a current title
C5_KeysDistinct ==
    LET stored == EvalDict(ReportedSubmission.data, FieldNames)
        extras == DOMAIN stored \ {row.name : row \in fields}
    IN /\ \A a, b \in fields : a # b => a.title # b.title
       /\ \A k \in extras : \A row \in fields : row.title # k

\* What C5 says does hold of the reports whose keys are all different
C5_HoldsForDistinctKeys ==
    (response.op = "sorted_data" /\ response.include = {} /\ C5_KeysDistinct) =>
        LET d == response.data
            n == Cardinality(fields)
            stored == EvalDict(ReportedSubmission.data, FieldNames)
            extras == DOMAIN stored \ {row.name : row \in fields}
        IN /\ Len(d) = n + Cardinality(extras)
           /\ \A i \in 1..n : d[i][1] = RowAt(i).title
           /\ \A k \in extras : \E i \in (n + 1)..Len(d) : d[i] = <<k, stored[k]>>

\* C6: the class Form.form() builds has exactly one field per stored row,
\* under the row's name and holding the row's runtime field, in ascending
\* (ordering, id) order whatever the insertion order.
C6_FormFieldsInOrder ==
    response.op = "render" =>
        LET fs == response.form_class.fields
            RowNamed(name) == CHOOSE row \in fields : row.name = name
        IN /\ Len(fs) = Cardinality(fields)
           /\ \A row \in fields : \E i \in 1..Len(fs) : fs[i] = <<row.name, formfield(row)>>
           /\ \A i, j \in 1..Len(fs) : i < j =>
                LET a == RowNamed(fs[i][1])
                    b == RowNamed(fs[j][1])
                IN a.ordering < b.ordering \/ (a.ordering = b.ordering /\ a.id < b.id)

\* Fields (2, "email"), (1, "name") added in that order come out name, email
C6_Witness ==
    /\ response.op = "render"
    /\ \E a, b \in fields :
        /\ a.id = 1 /\ a.ordering = 2 /\ a.name = "email"
        /\ b.id = 2 /\ b.ordering = 1 /\ b.name = "name"
    /\ Len(response.form_class.fields) = 2
    /\ response.form_class.fields[1][1] = "name"
    /\ response.form_class.fields[2][1] = "email"

\* C7: for a field of any type of the enumeration, clean() raises the
\* validation error exactly when choices is not empty and the type is none
\* of select, radio, multiple-select.
C7_CleanRejectsChoicesOnNonChoiceTypes ==
    response.op = "clean" =>
        /\ instance.type \in TypeTags
        /\ response.result \in {"ok", "ValidationError"}
        /\ (response.result = "ValidationError") <=>
                (instance.choices # <<>>
                    /\ instance.type \notin {"select", "radio", "multiple-select"})

\* The choices "A, b ,C" on a text field are refused
C7_Witness ==
    /\ response.op = "clean"
    /\ instance.type = "text"
    /\ instance.choices = Chars("A, b ,C")
    /\ response.result = "ValidationError"

\* The k-th comma-separated piece of a text
Piece(text, k) ==
    LET commas == {i \in 1..Len(text) : text[i] = ","}
        cut(m) == IF m = 0 THEN 0
                  ELSE IF m > Cardinality(commas) THEN Len(text) + 1
                  ELSE CHOOSE p \in commas : Cardinality({q \in commas : q < p}) = m - 1
    IN SubSeq(text, cut(k - 1) + 1, cut(k) - 1)

\* C8: get_choices() gives one (slug of the trimmed piece, trimmed piece)
\* pair per comma-separated piece of choices, in order, with one blank
\* option in front exactly when the field is optional and of type select,
\* empty choices included; "A, b ,C" gives ("a","A"), ("b","b"), ("c","C").
C8_GetChoices ==
    response.op = "get_choices" =>
        LET blank == ~instance.is_required /\ instance.type = "select"
            result == response.result
            text == instance.choices
            pieces == Cardinality({i \in 1..Len(text) : text[i] = ","}) + 1
            offset == IF blank THEN 1 ELSE 0
        IN /\ Len(result) = pieces + offset
           /\ blank => result[1] = <<"", "---------">>
           /\ \A k \in 1..pieces :
                LET trimmed == Strip(Piece(text, k))
                IN /\ result[k + offset] = <<Str(slugify(trimmed)), Str(trimmed)>>
                   /\ trimmed # <<>> => trimmed[1] # " " /\ trimmed[Len(trimmed)] # " "
           /\ text = Chars("A, b ,C") =>
                SubSeq(result, 1 + offset, 3 + offset)
                    = << <<"a", "A">>, <<"b", "b">>, <<"c", "C">> >>
           /\ (text = <<>> /\ blank) => result = << <<"", "---------">>, <<"", "">> >>

\* An optional select with choices "A, b ,C": the blank option, then the three
C8_Witness ==
    /\ response.op = "get_choices"
    /\ instance.type = "select"
    /\ ~instance.is_required
    /\ instance.choices = Chars("A, b ,C")
    /\ response.result = << <<"", "---------">>, <<"a", "A">>, <<"b", "b">>, <<"c", "C">> >>

RECURSIVE Joined(_)
Joined(strs) == IF strs = <<>> THEN "" ELSE Head(strs) \o Joined(Tail(strs))

\* C9: formatted_data gives, in both renderings, one entry per sorted_data()
\* entry whose key is not in the hidden-fields list, in sorted_data order,
\* and none for a key in the list.
C9_FormattedDataHidesHiddenFields ==
    response.op = "formatted_data" =>
        LET hidden(key) == \E h \in 1..Len(HIDDEN_FIELDS) : HIDDEN_FIELDS[h] = key
            shown == SelectSeq(response.data, LAMBDA e : ~hidden(e[1]))
            plain == [i \in 1..Len(shown) |-> shown[i][1] \o ": " \o Format(shown[i][2]) \o "\n"]
            markup == [i \in 1..Len(shown) |->
                        "<dt>" \o shown[i][1] \o "</dt><dd>" \o Format(shown[i][2]) \o "</dd>\n"]
        IN /\ response.data \in
                {sorted_data(ReportedSubmission, fields, o, {}) :
                    o \in DictOrders(EvalDict(ReportedSubmission.data, FieldNames))}
           /\ response.text = IF response.html THEN "<dl>" \o Joined(markup) \o "</dl>"
                              ELSE Joined(plain)

\* Hiding "E-mail" leaves only the name line of the plain rendering
C9_Witness ==
    /\ response.op = "formatted_data"
    /\ ~response.html
    /\ response.data = << <<"E-mail", U("a")>>, <<"name", U("a")>> >>
    /\ response.text = "name: a\n"

\* C10: with classes configured, the form base is appended exactly when none
\* of them inherits from it, and the list is the configured one when one
\* does; with none configured the list is the form base alone.
C10_FormBaseAppendedOnlyWhenMissing ==
    response.op = "render" =>
        LET entries == settings.FORM_DESIGNER_CLASSES
            listed == [i \in 1..Len(entries) |-> entries[i].name]
            capable == \E i \in 1..Len(listed) : ClassTable[listed[i]].is_form
        IN response.form_class.bases =
            IF ~settings.has_classes THEN <<"Form">>
            ELSE IF capable THEN listed
            ELSE Append(listed, "Form")

====
